---- MODULE Spec2Model ----
(***************************************************************************)
(* Model of the typed request dispatch and error-classification layer of   *)
(* mathpix-go: the generic function call (mathpix.go), nopDecode, the      *)
(* error identifiers (ErrorID, isErrorID), the endpoint descriptors, the   *)
(* Client facade methods and the AppTokenRequest builder (tokens.go).      *)
(*                                                                         *)
(* JSON documents are modelled by their top-level structure: the kind of   *)
(* the first JSON value and, for an object, the members the decoders of    *)
(* the repository look at, each with its JSON type.  URL paths are         *)
(* sequences of segments.                                                  *)
(***************************************************************************)
EXTENDS Integers, Sequences, FiniteSets, TLC

VARIABLES
    made,     \* the arguments the Client was constructed with: apiKey, appID, opts
    facade,   \* per call: the facade method of the Client that is running
    seen,     \* per call: what the caller read off the returned *APIError: Error(), ID.HTTPStatusCode()
    ctx,      \* per call: "" while the context is live, else where the call stood when it was cancelled
    answer,   \* per call: what c.client.Do returned, a response or an error
    encoded,  \* per call: the header of httpReq as httpin's encoder returned it
    tok,      \* the AppTokenRequest the caller is building (tokens.go:15-25)
    last,     \* the caller's last call on the AppTokenRequest builder: op, seconds, before
    client,   \* the Client: apiKey, appID, baseURL, client, SetCommonHeaders (mathpix.go:17-25)
    pc,       \* per call: the position inside the facade method / call
    ep,       \* per call: the endpoint descriptor argument e
    request,  \* per call: the request argument (the payload's fields)
    param,    \* per call: the path parameter argument
    httpReq,  \* per call: the local httpReq
    res,      \* per call: the local res (status code and body on the wire)
    dec,      \* per call: the locals resp, apiErr of nopDecode's result
    ret,      \* per call: the returned (response, err)
    steps,    \* per call: the steps of call executed so far, in order
    trips     \* per call: how many times c.client.Do was invoked

vars == <<made, facade, seen, ctx, answer, encoded, tok, last, client, pc, ep, request, param, httpReq, res, dec, ret, steps, trips>>

----------------------------------------------------------------------------
(* Bounds of the model *)

\* number of calls that may be in flight at the same time through one Client
NumCalls == 2

Calls == 1 .. NumCalls

----------------------------------------------------------------------------
(* JSON values, by structure *)

\* a member of a JSON object: its JSON type and, for a string, an array of
\* strings or an object with an "id" member, the strings it carries
Val(t, v) == [t |-> t, v |-> v]
Absent    == Val("absent", <<>>)
Str(s)    == Val("str", <<s>>)
Num       == Val("num", <<>>)
Arr(ss)   == Val("arr", ss)
Obj(ss)   == Val("obj", ss)

\* a JSON document: kind is "empty" (no bytes), "garbage" (bytes that are not
\* JSON), "null", "array" or "object"
EmptyObject ==
    [kind |-> "object", id |-> Absent, message |-> Absent, detail |-> Absent,
     error |-> Absent, keys |-> Absent, results |-> Absent]
NonObject(k) == [EmptyObject EXCEPT !.kind = k]
NoBody == NonObject("none")

----------------------------------------------------------------------------
(* error identifiers: ErrorID constants and isErrorID *)

ErrHTTPUnauthorized     == "http_unauthorized"
ErrHTTPMaxRequests      == "http_max_requests"
ErrJSONSyntax           == "json_syntax"
ErrImageMissing         == "image_missing"
ErrImageDownload        == "image_download_error"
ErrImageDecode          == "image_decode_error"
ErrImageNoContent       == "image_no_content"
ErrImageNotSupported    == "image_not_supported"
ErrImageMaxSize         == "image_max_size"
ErrStrokesMissing       == "strokes_missing"
ErrStrokesSyntaxError   == "strokes_syntax_error"
ErrStrokesNoContent     == "strokes_no_content"
ErrOptsBadCallback      == "opts_bad_callback"
ErrOptsUnknownOCR       == "opts_unknown_ocr"
ErrOptsUnknownFormat    == "opts_unknown_format"
ErrOptsNumberRequired   == "opts_number_required"
ErrOptsValueOutOfRange  == "opts_value_out_of_range"
ErrPDFEncrypted         == "pdf_encrypted"
ErrPDFUnknownID         == "pdf_unknown_id"
ErrPDFMissing           == "pdf_missing"
ErrPDFPageLimitExceeded == "pdf_page_limit_exceeded"
ErrMathConfidence       == "math_confidence"
ErrMathSyntax           == "math_syntax"
ErrBatchUnknownID       == "batch_unknown_id"
ErrSysException         == "sys_exception"
ErrSysRequestTooLarge   == "sys_request_too_large"

\* the identifiers declared as ErrorID constants
ErrorIDConstants ==
    {ErrHTTPUnauthorized, ErrHTTPMaxRequests, ErrJSONSyntax, ErrImageMissing,
     ErrImageDownload, ErrImageDecode, ErrImageNoContent, ErrImageNotSupported,
     ErrImageMaxSize, ErrStrokesMissing, ErrStrokesSyntaxError,
     ErrStrokesNoContent, ErrOptsBadCallback, ErrOptsUnknownOCR,
     ErrOptsUnknownFormat, ErrOptsNumberRequired, ErrOptsValueOutOfRange,
     ErrPDFEncrypted, ErrPDFUnknownID, ErrPDFMissing, ErrPDFPageLimitExceeded,
     ErrMathConfidence, ErrMathSyntax, ErrBatchUnknownID, ErrSysException,
     ErrSysRequestTooLarge}

\* mutant: the last case of the switch is missing
isErrorID_withoutLastCase(in) ==
    in \in ErrorIDConstants \ {ErrSysRequestTooLarge}

\* mutant: the zero value of ErrorID is taken for an error
isErrorID_emptyMatches(in) ==
    in \in ErrorIDConstants \cup {""}

isErrorID(in) ==
    CASE in = ErrHTTPUnauthorized     -> TRUE
      [] in = ErrHTTPMaxRequests      -> TRUE
      [] in = ErrJSONSyntax           -> TRUE
      [] in = ErrImageMissing         -> TRUE
      [] in = ErrImageDownload        -> TRUE
      [] in = ErrImageDecode          -> TRUE
      [] in = ErrImageNoContent       -> TRUE
      [] in = ErrImageNotSupported    -> TRUE
      [] in = ErrImageMaxSize         -> TRUE
      [] in = ErrStrokesMissing       -> TRUE
      [] in = ErrStrokesSyntaxError   -> TRUE
      [] in = ErrStrokesNoContent     -> TRUE
      [] in = ErrOptsBadCallback      -> TRUE
      [] in = ErrOptsUnknownOCR       -> TRUE
      [] in = ErrOptsUnknownFormat    -> TRUE
      [] in = ErrOptsNumberRequired   -> TRUE
      [] in = ErrOptsValueOutOfRange  -> TRUE
      [] in = ErrPDFEncrypted         -> TRUE
      [] in = ErrPDFUnknownID         -> TRUE
      [] in = ErrPDFMissing           -> TRUE
      [] in = ErrPDFPageLimitExceeded -> TRUE
      [] in = ErrMathConfidence       -> TRUE
      [] in = ErrMathSyntax           -> TRUE
      [] in = ErrBatchUnknownID       -> TRUE
      [] in = ErrSysException         -> TRUE
      [] in = ErrSysRequestTooLarge   -> TRUE
      [] OTHER                        -> FALSE

----------------------------------------------------------------------------
(* errors and the APIError struct *)

\* APIError{ID, Message, Detail}: Message and Detail are *string, modelled as
\* <<>> (nil) or a one-element sequence
APIError(id, message, detail) == [ID |-> id, Message |-> message, Detail |-> detail]
ZeroAPIError == APIError("", <<>>, <<>>)

\* an error value: kind "nil" is the nil error; "api" is *APIError and
\* carries the envelope; "encode" is httpin's error; "refused", "timeout"
\* and "canceled" are the errors of http.Client.Do; "EOF", "syntax", "type"
\* are encoding/json's io.EOF, *SyntaxError and *UnmarshalTypeError
Err(kind, api) == [kind |-> kind, api |-> api]
NilErr         == Err("nil", ZeroAPIError)
JSONErrKinds   == {"EOF", "syntax", "type"}

\* ErrorID.String
String(e) == e

\* mutant: the detail, when there is one, is appended
Error_withDetail(e) ==
    IF e.Message = <<>>
      THEN <<String(e.ID)>> \o e.Detail
      ELSE <<String(e.ID), ": ", e.Message[1]>> \o e.Detail

\* (*APIError).Error: a string is the sequence of the pieces it is put
\* together from, here by fmt.Sprintf("%s: %s", e.ID.String(), *e.Message)
Error(e) ==
    IF e.Message = <<>>
      THEN <<String(e.ID)>>
      ELSE <<String(e.ID), ": ", e.Message[1]>>

\* mutant: the case of ErrHTTPMaxRequests is missing
HTTPStatusCode_withoutMaxRequests(e) ==
    CASE e = ErrHTTPUnauthorized -> 401
      [] OTHER -> 200

\* ErrorID.HTTPStatusCode
HTTPStatusCode(e) ==
    CASE e = ErrHTTPUnauthorized -> 401
      [] e = ErrHTTPMaxRequests -> 429
      [] OTHER -> 200
TransportErrKinds == {"refused", "timeout", "canceled"}

----------------------------------------------------------------------------
(* encoding/json, as the two decoders of call use it *)

\* whether a member of the document can be stored in a Go field of type t
\* ("str": string or *string, "arr": []string, "obj": a map); an absent
\* member leaves the field alone
Fits(val, t) == val.t = "absent" \/ val.t = t

\* json.NewDecoder(r).Decode(&v) for v of type APIError: the members id,
\* message and detail of the top-level object.  An empty stream is io.EOF,
\* bytes that are not JSON a syntax error, null leaves v alone, any other
\* non-object and any member of the wrong JSON type is an UnmarshalTypeError;
\* an error of the reader before the value is complete is returned as it is
DecodeAPIError(b) ==
    CASE b.kind = "empty"   -> [v |-> ZeroAPIError, err |-> Err("EOF", ZeroAPIError)]
      [] b.kind = "aborted" -> [v |-> ZeroAPIError, err |-> Err("canceled", ZeroAPIError)]
      [] b.kind = "garbage" -> [v |-> ZeroAPIError, err |-> Err("syntax", ZeroAPIError)]
      [] b.kind = "null"    -> [v |-> ZeroAPIError, err |-> NilErr]
      [] b.kind = "array"   -> [v |-> ZeroAPIError, err |-> Err("type", ZeroAPIError)]
      [] OTHER ->
           LET v == APIError(IF b.id.t = "str" THEN b.id.v[1] ELSE "",
                             IF b.message.t = "str" THEN b.message.v ELSE <<>>,
                             IF b.detail.t = "str" THEN b.detail.v ELSE <<>>)
               ok == Fits(b.id, "str") /\ Fits(b.message, "str") /\ Fits(b.detail, "str")
           IN  [v |-> v, err |-> IF ok THEN NilErr ELSE Err("type", ZeroAPIError)]

\* mutant: the value decoded from the body is not handed back
nopDecode_withoutValue(r) ==
    LET d == DecodeAPIError(r)
    IN  IF d.err.kind # "nil"
          THEN [buf |-> NoBody, v |-> d.v, err |-> d.err]
          ELSE [buf |-> r, v |-> ZeroAPIError, err |-> NilErr]

\* mutant: the reader handed back is the stream that was just read to its end
nopDecode_returnsDrainedReader(r) ==
    LET d == DecodeAPIError(r)
    IN  IF d.err.kind # "nil"
          THEN [buf |-> NoBody, v |-> d.v, err |-> d.err]
          ELSE [buf |-> NonObject("empty"), v |-> d.v, err |-> NilErr]

\* nopDecode[APIError]: on a decoding error the reader returned is nil,
\* otherwise it is the buffer holding the bytes the decoder read
nopDecode(r) ==
    LET d == DecodeAPIError(r)
    IN  IF d.err.kind # "nil"
          THEN [buf |-> NoBody, v |-> d.v, err |-> d.err]
          ELSE [buf |-> r, v |-> d.v, err |-> NilErr]

\* the typed response: a pointer (nil or set) to a struct, of which the
\* model keeps the fields Keys (GetBatchResponse) and Error (ImageResponse,
\* ResponseDocument)
Response(ptr, keys, error) == [ptr |-> ptr, Keys |-> keys, Error |-> error]
NilResponse == Response("nil", <<>>, <<>>)

\* the Go types of the members error, keys, results in each response type
\* ("none": the type has no such field, the member is skipped)
FieldType(responseType, member) ==
    CASE responseType \in {"ImageResponse", "ResponseDocument"} /\ member = "error"
           -> "str"
      [] responseType = "GetBatchResponse" /\ member = "keys"    -> "arr"
      [] responseType = "GetBatchResponse" /\ member = "results" -> "obj"
      [] OTHER -> "none"

\* json.NewDecoder(resp).Decode(&response) for response a nil pointer to a
\* response struct: null leaves the pointer nil without an error; an object
\* allocates the struct and fills the fields whose members fit, and a member
\* of the wrong JSON type yields an UnmarshalTypeError with the struct
\* allocated and the other fields filled
DecodeResponse(responseType, b) ==
    CASE b.kind \in {"empty", "none"} -> [response |-> NilResponse, err |-> Err("EOF", ZeroAPIError)]
      [] b.kind = "garbage" -> [response |-> NilResponse, err |-> Err("syntax", ZeroAPIError)]
      [] b.kind = "null"    -> [response |-> NilResponse, err |-> NilErr]
      [] b.kind = "array"   ->
           [response |-> Response("set", <<>>, <<>>), err |-> Err("type", ZeroAPIError)]
      [] OTHER ->
           LET has(m, val) == FieldType(responseType, m) # "none" /\ val.t # "absent"
               good(m, val) == has(m, val) /\ val.t = FieldType(responseType, m)
               bad(m, val) == has(m, val) /\ val.t # FieldType(responseType, m)
               r == Response("set",
                             IF good("keys", b.keys) THEN b.keys.v ELSE <<>>,
                             IF good("error", b.error) THEN b.error.v ELSE <<>>)
           IN  [response |-> r,
                err |-> IF bad("error", b.error) \/ bad("keys", b.keys)
                           \/ bad("results", b.results)
                          THEN Err("type", ZeroAPIError) ELSE NilErr]

----------------------------------------------------------------------------
(* URLs: url.URL.JoinPath *)

URL(host, path, slash) == [host |-> host, path |-> path, slash |-> slash]

\* path.Clean on a rooted path, segment by segment: empty and "." segments
\* are dropped, ".." drops the segment before it (nothing at the root)
RECURSIVE Clean(_, _)
Clean(segs, acc) ==
    IF segs = <<>> THEN acc
    ELSE LET s == Head(segs)
         IN  CASE s = "" \/ s = "." -> Clean(Tail(segs), acc)
               [] s = ".." ->
                    Clean(Tail(segs),
                          IF acc = <<>> THEN <<>> ELSE SubSeq(acc, 1, Len(acc) - 1))
               [] OTHER -> Clean(Tail(segs), Append(acc, s))

\* mutant: the path parameter is left out of the join
JoinPath_withoutParam(u, name, p) == URL(u.host, Clean(u.path \o name, <<>>), FALSE)

\* mutant: the elements are put one after the other, a slash after each
JoinPath_concatenated(u, name, p) == URL(u.host, u.path \o name \o p, TRUE)

\* mutant: the join is made in the receiver
JoinPathReceiver_joined(u, name, p) ==
    URL(u.host, Clean(u.path \o name \o p, <<>>), p # <<>> /\ p[Len(p)] = "")

\* the receiver c.baseURL after c.baseURL.JoinPath(e.name, param): JoinPath
\* returns a new URL and leaves its receiver as it was
JoinPathReceiver(u, name, p) == u

\* c.baseURL.JoinPath(e.name, param): the elements are joined and cleaned; a
\* trailing slash is kept when the last element ends with one
JoinPath(u, name, p) ==
    URL(u.host, Clean(u.path \o name \o p, <<>>), p # <<>> /\ p[Len(p)] = "")

----------------------------------------------------------------------------
(* the endpoint descriptors *)

endpoint(name, method, req, resp) ==
    [name |-> name, method |-> method, Request |-> req, Response |-> resp]

imagesEndpoint    == endpoint(<<"v3", "image">>, "POST", "imageRequestPayload", "ImageResponse")
documentsEndpoint == endpoint(<<"v3", "pdf">>, "POST", "documentRequestPayload", "ResponseDocument")
conversionStatusEndpoint ==
    endpoint(<<"v3", "status">>, "GET", "resultRequestPayload", "ResponseConversionResult")
batchEndpoint     == endpoint(<<"v3", "batch">>, "POST", "postBatchRequestPayload", "ResponsePostBatch")
strokesEndpoint   == endpoint(<<"v3", "strokes">>, "POST", "requestStrokesPayload", "StrokesResponse")
appTokensEndpoint == endpoint(<<"v3", "app-tokens">>, "POST", "appTokenPayload", "AppTokenResponse")
ocrResultsEndpoint ==
    endpoint(<<"v3", "ocr-results">>, "GET", "ocrResultsPayload", "OCRResultsResponse")
\* mutant: the descriptor of GetBatch has the verb of Batch
getBatchEndpoint_withPost ==
    endpoint(<<"v3", "batch">>, "POST", "getBatchPayload", "GetBatchResponse")
getBatchEndpoint  == endpoint(<<"v3", "batch">>, "GET", "getBatchPayload", "GetBatchResponse")
requestUsageEndpoint == endpoint(<<"v3", "usage">>, "POST", "usagePayload", "ResponseUsage")

Endpoints ==
    {imagesEndpoint, documentsEndpoint, conversionStatusEndpoint, batchEndpoint,
     strokesEndpoint, appTokensEndpoint, ocrResultsEndpoint, getBatchEndpoint,
     requestUsageEndpoint}

----------------------------------------------------------------------------
(* request values *)

\* the fields of the request values the model distinguishes:
\* AppTokenRequest{IncludeStrokesSessionID, Expires} and
\* RequestUsage{GroupBy, Timespan}
Request(type, strokes, expires, groupBy, timespan) ==
    [type |-> type, IncludeStrokesSessionID |-> strokes, Expires |-> expires,
     GroupBy |-> groupBy, Timespan |-> timespan]
Payload(type) == Request(type, FALSE, 0, "", "")
NoRequest == Payload("none")

AppTokenRequest(strokes, expires) == Request("AppTokenRequest", strokes, expires, "", "")

NewAppTokenRequest == AppTokenRequest(FALSE, 300)

\* mutant: Expires is left as it is
WithStrokesSession_withoutClamp(r) == [r EXCEPT !.IncludeStrokesSessionID = TRUE]

\* mutant: Expires is set to 300 whatever it was
WithStrokesSession_resetsExpires(r) ==
    [r EXCEPT !.IncludeStrokesSessionID = TRUE, !.Expires = 300]

WithStrokesSession(r) ==
    [r EXCEPT !.IncludeStrokesSessionID = TRUE,
              !.Expires = IF r.Expires > 300 THEN 300 ELSE r.Expires]

\* mutant: the limit of a strokes-session token is not applied
WithExpiration_withoutStrokesLimit(r, seconds) ==
    LET s == IF seconds < 30 THEN 30 ELSE IF seconds > 43200 THEN 43200 ELSE seconds
    IN  [r EXCEPT !.Expires = s]

WithExpiration(r, seconds) ==
    LET s == IF r.IncludeStrokesSessionID
               THEN (IF seconds < 30 THEN 30 ELSE IF seconds > 300 THEN 300 ELSE seconds)
               ELSE (IF seconds < 30 THEN 30 ELSE IF seconds > 43200 THEN 43200 ELSE seconds)
    IN  [r EXCEPT !.Expires = s]

----------------------------------------------------------------------------
(* the Client *)

DefaultBaseURL == URL("api.mathpix.com", <<>>, FALSE)

\* a ClientOption.  WithBaseURL(baseURL): url.Parse succeeded (ok) with result
\* url, or failed.  An option written by a caller can assign the one
\* exported field of Client, SetCommonHeaders
ClientOption(field, ok, url, hook) == [field |-> field, ok |-> ok, url |-> url, hook |-> hook]
WithBaseURL(ok, url) == ClientOption("baseURL", ok, url, "")
WithCommonHeaders(hook) == ClientOption("SetCommonHeaders", FALSE, DefaultBaseURL, hook)

\* opt(client)
ApplyOption(c, opt) ==
    CASE opt.field = "baseURL" -> IF opt.ok THEN [c EXCEPT !.baseURL = opt.url] ELSE c
      [] opt.field = "SetCommonHeaders" -> [c EXCEPT !.SetCommonHeaders = opt.hook]

\* for _, opt := range opts { opt(client) }
RECURSIVE ApplyOptions(_, _)
ApplyOptions(c, opts) ==
    IF opts = <<>> THEN c
    ELSE ApplyOptions(ApplyOption(c, Head(opts)), Tail(opts))

\* the Client struct; SetCommonHeaders is "" (nil), "NewClient" (the closure
\* of lines 43-46) or the name of a function an option assigned
Client(apiKey, appID, baseURL, httpClient, hook) ==
    [apiKey |-> apiKey, appID |-> appID, baseURL |-> baseURL, client |-> httpClient,
     SetCommonHeaders |-> hook]

\* mutant: SetCommonHeaders is assigned before the options run
NewClient_optionsLast(apiKey, appID, opts) ==
    ApplyOptions(Client(apiKey, appID, DefaultBaseURL, "http.DefaultClient", "NewClient"),
                 opts)

\* NewClient(apiKey, appID, opts...): SetCommonHeaders is assigned after the
\* options ran and reads client.apiKey and client.appID
NewClient(apiKey, appID, opts) ==
    [ApplyOptions(Client(apiKey, appID, DefaultBaseURL, "http.DefaultClient", ""), opts)
       EXCEPT !.SetCommonHeaders = "NewClient"]

\* the headers of a request: app_key, app_id, Content-Type ("" is unset)
Header(appKey, appId, contentType) ==
    [app_key |-> appKey, app_id |-> appId, ContentType |-> contentType]

\* mutant: a header the request already has is kept
SetCommonHeaders_keepsExisting(c, h) ==
    [h EXCEPT !.app_key = IF @ = "" THEN c.apiKey ELSE @,
              !.app_id = IF @ = "" THEN c.appID ELSE @]

\* c.SetCommonHeaders(req): the closure of NewClient sets both headers; a
\* function assigned by an option is a caller's and sets what it likes,
\* here nothing
SetCommonHeaders(c, h) ==
    IF c.SetCommonHeaders = "NewClient"
      THEN [h EXCEPT !.app_key = c.apiKey, !.app_id = c.appID]
      ELSE h

----------------------------------------------------------------------------
(* the wire request *)

\* the JSON body of a request: the members present and, for an
\* AppTokenRequest, their values (both members are omitempty)
Body(members, strokes, expires) ==
    [members |-> members, include_strokes_session_id |-> strokes, expires |-> expires]
NoRequestBody == Body({}, FALSE, 0)

\* json.Marshal of the Payload field (`in:"body=json"`)
MarshalPayload(r) ==
    IF r.type = "AppTokenRequest"
      THEN Body((IF r.IncludeStrokesSessionID THEN {"include_strokes_session_id"} ELSE {})
                  \cup (IF r.Expires # 0 THEN {"expires"} ELSE {}),
                r.IncludeStrokesSessionID, r.Expires)
      ELSE NoRequestBody

HTTPRequest(method, url, header, body) ==
    [method |-> method, url |-> url, header |-> header, body |-> body]
NoHTTPRequest == HTTPRequest("", URL("", <<>>, FALSE), Header("", "", ""), NoRequestBody)

\* httpin.NewRequestWithContext(ctx, e.method, url, request).  What the
\* encoder of the httpin library makes of the request value is its own:
\* enc.ok says whether it returned a request, enc.header the header it set
NewRequestWithContext(method, url, r, enc) ==
    IF enc.ok
      THEN [req |-> HTTPRequest(method, url, enc.header, MarshalPayload(r)),
            err |-> NilErr]
      ELSE [req |-> NoHTTPRequest, err |-> Err("encode", ZeroAPIError)]

\* an answer of c.client.Do: an error, or a response with status and body
TransportFailure(cause) == [failed |-> TRUE, cause |-> cause, status |-> 0, body |-> NoBody]
TransportError   == TransportFailure("refused")
HTTPResponse(status, body) ==
    [failed |-> FALSE, cause |-> "", status |-> status, body |-> body]
NoResponse       == HTTPResponse(0, NoBody)

NoDecode == [buf |-> NoBody, v |-> ZeroAPIError, err |-> NilErr]
Return(response, err) == [response |-> response, err |-> err]
NoReturn == Return(NilResponse, NilErr)

StatusOK         == 200
StatusBadRequest == 400

\* mutant: every status that is not 2xx is taken for a failure
IsFailure_non2xx(statusCode, id) ==
    statusCode < StatusOK \/ statusCode >= 300 \/ isErrorID(id)

\* mutant: the content type is set whatever the request has
SetDefaultContentType_always(h) == [h EXCEPT !.ContentType = "application/json"]

\* lines 87-90: the content type is set when the request has none
SetDefaultContentType(h) ==
    LET contentType == h.ContentType
    IN  IF contentType = "" THEN [h EXCEPT !.ContentType = "application/json"] ELSE h

\* mutant: the error of c.client.Do is not looked at
AfterDo_errorNotChecked(a) == [pc |-> "nopDecode", ret |-> Return(NilResponse, NilErr)]

\* mutant: the request is sent again after a transport error
AfterDo_sendsAgain(a) ==
    [pc |-> IF a.failed THEN "send" ELSE "nopDecode", ret |-> Return(NilResponse, NilErr)]

\* lines 92-94: on an error of c.client.Do the bare return hands back the
\* zero response and that error; otherwise the call goes on
AfterDo(a) ==
    IF a.failed
      THEN [pc |-> "done", ret |-> Return(NilResponse, Err(a.cause, ZeroAPIError))]
      ELSE [pc |-> "nopDecode", ret |-> Return(NilResponse, NilErr)]

\* mutant: the identifier of the envelope is not looked at
IsFailure_statusOnly(statusCode, id) ==
    statusCode < StatusOK \/ statusCode >= StatusBadRequest

\* the condition of call's classification
IsFailure(statusCode, id) ==
    statusCode < StatusOK \/ statusCode >= StatusBadRequest \/ isErrorID(id)

----------------------------------------------------------------------------
(* the steps of one call *)

\* a facade method calls call(ctx, c, e, request, param)
Enter(i, m, e, r, p) ==
    /\ pc[i] = "idle"
    /\ pc' = [pc EXCEPT ![i] = "call"]
    /\ facade' = [facade EXCEPT ![i] = m]
    /\ ep' = [ep EXCEPT ![i] = e]
    /\ request' = [request EXCEPT ![i] = r]
    /\ param' = [param EXCEPT ![i] = p]
    /\ UNCHANGED <<made, seen, ctx, answer, encoded, tok, last, client, httpReq, res, dec, ret, steps, trips>>

Image(i)          == Enter(i, "Image", imagesEndpoint, Payload("ImageRequest"), <<>>)
Pdf(i)            == Enter(i, "Pdf", documentsEndpoint, Payload("RequestDocument"), <<>>)
PdfResult(i, id)  == Enter(i, "PdfResult", conversionStatusEndpoint, NoRequest, id)
Batch(i)          == Enter(i, "Batch", batchEndpoint, Payload("RequestPostBatch"), <<>>)
RequestStrokes(i) ==
    Enter(i, "RequestStrokes", strokesEndpoint, Payload("RequestStrokes"), <<>>)
SearchResults(i)  ==
    Enter(i, "SearchResults", ocrResultsEndpoint, Payload("OCRSearchRequest"), <<>>)
NewClientToken(i, r) == Enter(i, "NewClientToken", appTokensEndpoint, r, <<>>)
GetBatch(i, batchID) ==
    Enter(i, "GetBatch", getBatchEndpoint, Payload("getBatchPayload"), batchID)
RequestUsage(i, r)   == Enter(i, "RequestUsage", requestUsageEndpoint, r, <<>>)

\* lines 77-85: build the wire request; an encoding error ends the call
BuildRequest(i, encs) ==
    /\ pc[i] = "call"
    /\ \E enc \in encs :
         LET out == NewRequestWithContext(ep[i].method,
                        JoinPath(client.baseURL, ep[i].name, param[i]),
                        request[i], enc)
         IN  IF out.err.kind # "nil"
               THEN /\ ret' = [ret EXCEPT ![i] = Return(NilResponse, out.err)]
                    /\ pc' = [pc EXCEPT ![i] = "done"]
                    /\ UNCHANGED <<httpReq, encoded>>
               ELSE /\ httpReq' = [httpReq EXCEPT ![i] = out.req]
                    /\ encoded' = [encoded EXCEPT ![i] = out.req.header]
                    /\ pc' = [pc EXCEPT ![i] = "headers"]
                    /\ UNCHANGED ret
    /\ steps' = [steps EXCEPT ![i] = Append(@, "encode")]
    /\ client' = [client EXCEPT !.baseURL = JoinPathReceiver(@, ep[i].name, param[i])]
    /\ UNCHANGED <<made, facade, seen, ctx, answer, tok, last, ep, request, param, res, dec, trips>>

\* lines 86-90: authentication headers, then the default content type
SetHeaders(i) ==
    /\ pc[i] = "headers"
    /\ httpReq' = [httpReq EXCEPT ![i].header =
                      SetDefaultContentType(SetCommonHeaders(client, @))]
    /\ pc' = [pc EXCEPT ![i] = "send"]
    /\ steps' = [steps EXCEPT ![i] = @ \o <<"auth", "contentType">>]
    /\ UNCHANGED <<made, facade, seen, ctx, answer, encoded, tok, last, client, ep, request, param, res, dec, ret, trips>>

\* lines 91-94: c.client.Do(httpReq); a transport error ends the call.
\* With a cancelled context the transport returns the context's error
Do(i, answers) ==
    /\ pc[i] = "send"
    /\ \E a \in answers :
         /\ ctx[i] # "" => a = TransportFailure("canceled")
         /\ answer' = [answer EXCEPT ![i] = a]
         /\ res' = [res EXCEPT ![i] = IF a.failed THEN NoResponse ELSE a]
         /\ pc' = [pc EXCEPT ![i] = AfterDo(a).pc]
         /\ ret' = [ret EXCEPT ![i] = AfterDo(a).ret]
    /\ trips' = [trips EXCEPT ![i] = @ + 1]
    /\ steps' = [steps EXCEPT ![i] = Append(@, "send")]
    /\ UNCHANGED <<made, facade, seen, ctx, encoded, tok, last, client, ep, request, param, httpReq, dec>>

\* what reading res.Body gives: the body the server sent or, once the
\* context is cancelled, possibly the error of the aborted read.  The read
\* races with the cancellation: bytes that have arrived are still delivered
Aborted == NonObject("aborted")
BodyReads(i) == IF ctx[i] = "" THEN {res[i].body} ELSE {res[i].body, Aborted}

\* lines 96-99: nopDecode[APIError](res.Body); its error ends the call
NopDecode(i) ==
    /\ pc[i] = "nopDecode"
    /\ \E r \in BodyReads(i) :
       LET d == nopDecode(r)
       IN  /\ dec' = [dec EXCEPT ![i] = d]
           /\ IF d.err.kind # "nil"
                THEN /\ ret' = [ret EXCEPT ![i] = Return(NilResponse, d.err)]
                     /\ pc' = [pc EXCEPT ![i] = "done"]
                ELSE /\ pc' = [pc EXCEPT ![i] = "classify"]
                     /\ UNCHANGED ret
    /\ steps' = [steps EXCEPT ![i] = Append(@, "envelope")]
    /\ UNCHANGED <<made, facade, seen, ctx, answer, encoded, tok, last, client, ep, request, param, httpReq, res, trips>>

\* lines 100-104: the classification
Classify(i) ==
    /\ pc[i] = "classify"
    /\ IF IsFailure(res[i].status, dec[i].v.ID)
         THEN /\ ret' = [ret EXCEPT ![i] = Return(NilResponse, Err("api", dec[i].v))]
              /\ pc' = [pc EXCEPT ![i] = "done"]
         ELSE /\ pc' = [pc EXCEPT ![i] = "decode"]
              /\ UNCHANGED ret
    /\ steps' = [steps EXCEPT ![i] = Append(@, "classify")]
    /\ UNCHANGED <<made, facade, seen, ctx, answer, encoded, tok, last, client, ep, request, param, httpReq, res, dec, trips>>

\* lines 105-109: decode the buffered body into the named result response;
\* on an error the bare return hands back response as the decoder left it
Decode(i) ==
    /\ pc[i] = "decode"
    /\ LET d == DecodeResponse(ep[i].Response, dec[i].buf)
       IN  ret' = [ret EXCEPT ![i] = Return(d.response, d.err)]
    /\ pc' = [pc EXCEPT ![i] = "done"]
    /\ steps' = [steps EXCEPT ![i] = Append(@, "decode")]
    /\ UNCHANGED <<made, facade, seen, ctx, answer, encoded, tok, last, client, ep, request, param, httpReq, res, dec, trips>>

\* what the caller has read off an error
Seen(text, code) == [text |-> text, code |-> code]
NotSeen == Seen(<<>>, 0)

\* the caller, handed an *APIError, calls its Error method and asks its
\* identifier for HTTPStatusCode
Inspect(i) ==
    /\ pc[i] = "done"
    /\ ret[i].err.kind = "api"
    /\ seen[i] = NotSeen
    /\ seen' = [seen EXCEPT ![i] = Seen(Error(ret[i].err.api),
                                        HTTPStatusCode(ret[i].err.api.ID))]
    /\ UNCHANGED <<made, tok, last, client, facade, pc, ep, request, param, httpReq, encoded, res, answer,
                   ctx, dec, ret, steps, trips>>

\* the caller has the result; the locals of the call are gone
Finish(i) ==
    /\ pc[i] = "done"
    /\ pc' = [pc EXCEPT ![i] = "idle"]
    /\ ep' = [ep EXCEPT ![i] = imagesEndpoint]
    /\ request' = [request EXCEPT ![i] = NoRequest]
    /\ param' = [param EXCEPT ![i] = <<>>]
    /\ httpReq' = [httpReq EXCEPT ![i] = NoHTTPRequest]
    /\ res' = [res EXCEPT ![i] = NoResponse]
    /\ dec' = [dec EXCEPT ![i] = NoDecode]
    /\ ret' = [ret EXCEPT ![i] = NoReturn]
    /\ steps' = [steps EXCEPT ![i] = <<>>]
    /\ trips' = [trips EXCEPT ![i] = 0]
    /\ encoded' = [encoded EXCEPT ![i] = NoHTTPRequest.header]
    /\ answer' = [answer EXCEPT ![i] = NoResponse]
    /\ ctx' = [ctx EXCEPT ![i] = ""]
    /\ seen' = [seen EXCEPT ![i] = NotSeen]
    /\ facade' = [facade EXCEPT ![i] = ""]
    /\ UNCHANGED <<made, tok, last, client>>

\* the caller cancels the context of call i while the call is under way:
\* before the wire request is built, before it is sent, during the round
\* trip, or while the body is being read
Cancel(i) ==
    /\ pc[i] \in {"call", "headers", "send", "nopDecode"}
    /\ ctx[i] = ""
    /\ ctx' = [ctx EXCEPT ![i] = pc[i]]
    /\ UNCHANGED <<made, tok, last, client, facade, pc, ep, request, param, httpReq, encoded, res, answer,
                   seen, dec, ret, steps, trips>>

----------------------------------------------------------------------------
(* the caller's use of the AppTokenRequest builder *)

\* the record of a builder call: the method, its argument, the receiver before
BuilderCall(op, seconds, before) == [op |-> op, seconds |-> seconds, before |-> before]
NoBuilderCall == BuilderCall("NewAppTokenRequest", 0, NewAppTokenRequest)

\* r := NewAppTokenRequest()
BuildNew ==
    /\ tok' = NewAppTokenRequest
    /\ last' = BuilderCall("NewAppTokenRequest", 0, tok)
    /\ UNCHANGED <<made, client, facade, pc, ep, request, param, httpReq, encoded, res, answer, ctx, seen, dec, ret, steps, trips>>

\* r.WithStrokesSession()
BuildWithStrokesSession ==
    /\ tok' = WithStrokesSession(tok)
    /\ last' = BuilderCall("WithStrokesSession", 0, tok)
    /\ UNCHANGED <<made, client, facade, pc, ep, request, param, httpReq, encoded, res, answer, ctx, seen, dec, ret, steps, trips>>

\* r.WithExpiration(seconds)
BuildWithExpiration(seconds) ==
    /\ tok' = WithExpiration(tok, seconds)
    /\ last' = BuilderCall("WithExpiration", seconds, tok)
    /\ UNCHANGED <<made, client, facade, pc, ep, request, param, httpReq, encoded, res, answer, ctx, seen, dec, ret, steps, trips>>

----------------------------------------------------------------------------
(* the callers and the environment *)

\* the first call slot: the sequential specification uses it alone
Main == CHOOSE i \in Calls : \A j \in Calls : i <= j

\* path parameters: "", "abc123", "b2", "..", "../usage", "a/b", "abc123/"
PathParams ==
    {<<>>, <<"abc123">>, <<"b2">>, <<"..">>, <<"..", "usage">>, <<"a", "b">>,
     <<"abc123", "">>}

\* AppTokenRequest values: the fields are exported, so a caller may pass any
\* value, built with the With... methods or as a struct literal
ExpiresValues    == {0, 30, 300, 500, 43201}
AppTokenRequests == {AppTokenRequest(s, x) : s \in BOOLEAN, x \in ExpiresValues}

\* RequestUsage values
UsageRequests ==
    {Request("RequestUsage", FALSE, 0, g, t) : g \in {"", "usage_type"}, t \in {"", "month"}}

\* what httpin's encoder may do
EncoderOutcome(ok, header) == [ok |-> ok, header |-> header]
EncoderOutcomes ==
    {EncoderOutcome(FALSE, Header("", "", "")),
     EncoderOutcome(TRUE, Header("", "", "")),
     EncoderOutcome(TRUE, Header("", "", "multipart/form-data")),
     EncoderOutcome(TRUE, Header("other-key", "other-app", ""))}

\* status codes a server may answer with
StatusCodes == {101, 200, 204, 302, 399, 400, 404, 500}

\* the documented error envelope: the identifier nested under "error"
ErrorEnvelopeBody(id) == [EmptyObject EXCEPT !.error = Obj(<<id>>)]

\* the body of GET v3/batch/:id
BatchBody(keys) == [EmptyObject EXCEPT !.keys = Arr(keys), !.results = Obj(<<>>)]

\* response bodies a server may answer with
Bodies ==
    {NonObject("empty"), NonObject("garbage"), NonObject("null"), NonObject("array"),
     EmptyObject}
    \cup {[EmptyObject EXCEPT !.id = Str(x)] : x \in ErrorIDConstants \cup {"", "not_an_error_id"}}
    \cup {[EmptyObject EXCEPT !.id = Str(ErrImageMissing), !.message = Str("no image")],
          [EmptyObject EXCEPT !.id = Str(ErrImageMissing), !.message = Str("")],
          [EmptyObject EXCEPT !.id = Str(ErrSysException), !.message = Str("oops"),
                              !.detail = Str("trace")],
          [EmptyObject EXCEPT !.message = Str("hello")],
          [EmptyObject EXCEPT !.id = Num],
          [EmptyObject EXCEPT !.message = Num],
          [EmptyObject EXCEPT !.id = Str(ErrImageMissing), !.detail = Obj(<<>>)],
          ErrorEnvelopeBody(ErrImageMissing),
          [EmptyObject EXCEPT !.error = Str("Image missing")],
          BatchBody(<<"k1">>), BatchBody(<<"k1", "k2">>), BatchBody(<<>>),
          [EmptyObject EXCEPT !.keys = Num],
          [BatchBody(<<"k1">>) EXCEPT !.results = Arr(<<>>)],
          [BatchBody(<<"k1">>) EXCEPT !.id = Str(ErrBatchUnknownID)]}

\* what the transport may answer, whatever the request
Answers ==
    {TransportFailure(cause) : cause \in TransportErrKinds}
        \cup {HTTPResponse(st, b) : st \in StatusCodes, b \in Bodies}

\* clients: the default base URL, or a base URL with a path and a trailing
\* slash set by WithBaseURL
ProxyBaseURL == URL("proxy.local", <<"api", "">>, FALSE)
Construction(apiKey, appID, opts) == [apiKey |-> apiKey, appID |-> appID, opts |-> opts]
Constructions ==
    {Construction("key", "app", <<>>),
     Construction("key", "app", <<WithBaseURL(TRUE, ProxyBaseURL)>>)}
Clients == {NewClient(a.apiKey, a.appID, a.opts) : a \in Constructions}

\* the state after client := NewClient(apiKey, appID, opts...) for one of
\* the constructions
InitWith(constructions) ==
    /\ tok = NewAppTokenRequest
    /\ last = NoBuilderCall
    /\ made \in constructions
    /\ client = NewClient(made.apiKey, made.appID, made.opts)
    /\ facade = [i \in Calls |-> ""]
    /\ pc = [i \in Calls |-> "idle"]
    /\ ep = [i \in Calls |-> imagesEndpoint]
    /\ request = [i \in Calls |-> NoRequest]
    /\ param = [i \in Calls |-> <<>>]
    /\ httpReq = [i \in Calls |-> NoHTTPRequest]
    /\ encoded = [i \in Calls |-> NoHTTPRequest.header]
    /\ res = [i \in Calls |-> NoResponse]
    /\ answer = [i \in Calls |-> NoResponse]
    /\ ctx = [i \in Calls |-> ""]
    /\ seen = [i \in Calls |-> NotSeen]
    /\ dec = [i \in Calls |-> NoDecode]
    /\ ret = [i \in Calls |-> NoReturn]
    /\ steps = [i \in Calls |-> <<>>]
    /\ trips = [i \in Calls |-> 0]

Init == InitWith(Constructions)

\* one caller, calling again and again, against any server
Next ==
    \/ Image(Main)
    \/ Pdf(Main)
    \/ \E id \in PathParams : PdfResult(Main, id)
    \/ Batch(Main)
    \/ RequestStrokes(Main)
    \/ SearchResults(Main)
    \/ \E r \in AppTokenRequests : NewClientToken(Main, r)
    \/ \E id \in PathParams : GetBatch(Main, id)
    \/ \E r \in UsageRequests : RequestUsage(Main, r)
    \/ BuildRequest(Main, EncoderOutcomes)
    \/ SetHeaders(Main)
    \/ Do(Main, Answers)
    \/ NopDecode(Main)
    \/ Classify(Main)
    \/ Decode(Main)
    \/ Inspect(Main)
    \/ Finish(Main)

Spec == Init /\ [][Next]_vars

----------------------------------------------------------------------------
(* concurrent callers against a server that answers by the request's path *)

\* the batch and conversion ids the concurrent callers use
ConcParams == {<<"abc123">>, <<"b2">>, <<"gone">>}

\* the server: GET .../<id> is answered 404 with batch_unknown_id for the id
\* "gone" and 200 with the keys [<id>] for any other id
ServerAnswer(req) ==
    LET path == req.url.path
        id == IF path = <<>> THEN "" ELSE path[Len(path)]
    IN  IF id = "gone"
          THEN HTTPResponse(404, [EmptyObject EXCEPT !.id = Str(ErrBatchUnknownID)])
          ELSE HTTPResponse(StatusOK, BatchBody(<<id>>))

\* no two calls in flight have the same path parameter
Unused(p) == \A j \in Calls : pc[j] = "idle" \/ param[j] # p

ConcInit == Init /\ client = NewClient("key", "app", <<>>)

ConcNext ==
    \E i \in Calls :
        \/ \E id \in ConcParams : Unused(id) /\ GetBatch(i, id)
        \/ \E id \in ConcParams : Unused(id) /\ PdfResult(i, id)
        \/ BuildRequest(i, EncoderOutcomes)
        \/ SetHeaders(i)
        \/ Do(i, {TransportError, ServerAnswer(httpReq[i])})
        \/ NopDecode(i)
        \/ Classify(i)
        \/ Decode(i)
        \/ Finish(i)

ConcSpec == ConcInit /\ [][ConcNext]_vars

----------------------------------------------------------------------------
(* one caller, every facade method, clients with any base URL; the server is
   of no interest and never reached *)

\* base URLs: no path, the path "/", a path without and with a trailing slash
RootBaseURL  == URL("proxy.local", <<"">>, FALSE)
PlainBaseURL == URL("proxy.local", <<"api">>, FALSE)
URLConstructions ==
    {Construction("key", "app", <<>>),
     Construction("key", "app", <<WithBaseURL(TRUE, RootBaseURL)>>),
     Construction("key", "app", <<WithBaseURL(TRUE, PlainBaseURL)>>),
     Construction("key", "app", <<WithBaseURL(TRUE, ProxyBaseURL)>>)}

URLInit == InitWith(URLConstructions)

URLNext ==
    \/ Image(Main)
    \/ Pdf(Main)
    \/ \E id \in PathParams : PdfResult(Main, id)
    \/ Batch(Main)
    \/ RequestStrokes(Main)
    \/ SearchResults(Main)
    \/ \E r \in AppTokenRequests : NewClientToken(Main, r)
    \/ \E id \in PathParams : GetBatch(Main, id)
    \/ \E r \in UsageRequests : RequestUsage(Main, r)
    \/ BuildRequest(Main, EncoderOutcomes)
    \/ SetHeaders(Main)
    \/ Do(Main, {TransportError})
    \/ Finish(Main)

URLSpec == URLInit /\ [][URLNext]_vars

----------------------------------------------------------------------------
(* clients constructed with every short list of options *)

\* the options a caller may pass: WithBaseURL with a URL that parses, with one
\* that does not, and an option that assigns SetCommonHeaders
Options ==
    {WithBaseURL(TRUE, PlainBaseURL), WithBaseURL(TRUE, ProxyBaseURL),
     WithBaseURL(FALSE, DefaultBaseURL), WithCommonHeaders("custom")}

OptionLists ==
    {<<>>} \cup {<<a>> : a \in Options}
           \cup {<<a, b>> : a \in Options, b \in Options}
           \cup {<<a, b, c>> : a \in Options, b \in Options, c \in Options}

OptionConstructions ==
    {Construction(k[1], k[2], opts) : k \in {<<"key", "app">>, <<"key2", "app2">>},
                                      opts \in OptionLists}

OptionInit == InitWith(OptionConstructions)

OptionNext ==
    \/ Image(Main)
    \/ \E id \in {<<"b2">>} : GetBatch(Main, id)
    \/ BuildRequest(Main, EncoderOutcomes)
    \/ SetHeaders(Main)
    \/ Do(Main, {TransportError})
    \/ Finish(Main)

OptionSpec == OptionInit /\ [][OptionNext]_vars

----------------------------------------------------------------------------
(* one caller who may cancel the context of a call that is under way *)

\* what the transport may answer to a request whose context is live
CancelAnswers ==
    {TransportFailure("refused"),
     HTTPResponse(StatusOK, BatchBody(<<"k1">>)),
     HTTPResponse(StatusOK, NonObject("garbage")),
     HTTPResponse(404, [EmptyObject EXCEPT !.id = Str(ErrBatchUnknownID)]),
     TransportFailure("canceled")}

CancelNext ==
    \/ Image(Main)
    \/ \E id \in {<<"b2">>} : GetBatch(Main, id)
    \/ BuildRequest(Main, EncoderOutcomes)
    \/ SetHeaders(Main)
    \/ Cancel(Main)
    \/ Do(Main, CancelAnswers)
    \/ NopDecode(Main)
    \/ Classify(Main)
    \/ Decode(Main)
    \/ Finish(Main)

CancelSpec == Init /\ [][CancelNext]_vars

----------------------------------------------------------------------------
(* a caller building AppTokenRequest values with the builder methods *)

\* the arguments of WithExpiration: around each limit, and far outside
SecondsValues ==
    {-2000000000, -1, 0, 1, 29, 30, 31, 299, 300, 301, 500, 43199, 43200, 43201,
     2000000000}

TokenNext ==
    \/ BuildNew
    \/ BuildWithStrokesSession
    \/ \E seconds \in SecondsValues : BuildWithExpiration(seconds)

TokenSpec == Init /\ [][TokenNext]_vars

----------------------------------------------------------------------------
(* properties *)

HasResponse(r) == r.response.ptr = "set"
HasError(r)    == r.err.kind # "nil"
Ran(i, step)   == \E k \in 1 .. Len(steps[i]) : steps[i][k] = step
\* the transport handed call i a response
Answered(i)    == Ran(i, "send") /\ pc[i] # "send" /\ ~res[i].failed /\ res[i] # NoResponse
Is2xx(st)      == st >= 200 /\ st <= 299
Is3xx(st)      == st >= 300 /\ st <= 399
\* the identifier as it stands in the body: "" when the member id is absent
BodyID(b)      == IF b.id.t = "str" THEN b.id.v[1] ELSE ""

\* C1: every finished call surfaces exactly one of a non-nil typed response
\* and a non-nil error, never both and never neither.
C1_ExactlyOneOfResponseAndError ==
    \A i \in Calls : pc[i] = "done" => (HasResponse(ret[i]) # HasError(ret[i]))

\* C2: Image, answered 200 with the body {"error":{"id":"image_missing"}},
\* returns an API error with the identifier image_missing and no typed
\* response.
C2_ImageErrorEnvelopeIsAPIError ==
    \A i \in Calls :
        (/\ pc[i] = "done"
         /\ ep[i] = imagesEndpoint
         /\ Answered(i)
         /\ res[i].status = 200
         /\ res[i].body = ErrorEnvelopeBody(ErrImageMissing))
        => (/\ ret[i].err.kind = "api"
            /\ ret[i].err.api.ID = ErrImageMissing
            /\ ~HasResponse(ret[i]))

\* C3: a 2xx response whose decoded envelope carries one of the 26 known
\* identifiers makes call return an API error with that identifier and no
\* typed response.
C3_KnownIDOverrides2xx ==
    \A i \in Calls :
        (/\ pc[i] = "done"
         /\ Answered(i)
         /\ Is2xx(res[i].status)
         /\ Ran(i, "classify")
         /\ BodyID(res[i].body) \in ErrorIDConstants)
        => (/\ ret[i].err.kind = "api"
            /\ ret[i].err.api.ID = BodyID(res[i].body)
            /\ ~HasResponse(ret[i]))

\* a call answered 200 with the last identifier of the list returned it as an
\* API error
C3_Witness ==
    \E i \in Calls :
        /\ pc[i] = "done"
        /\ res[i].status = 200
        /\ Ran(i, "classify")
        /\ BodyID(res[i].body) = ErrSysRequestTooLarge
        /\ ret[i].err.kind = "api"
        /\ ret[i].err.api.ID = ErrSysRequestTooLarge

\* C4: a response with a status outside [200,399] makes call return the
\* HTTP/API error type (or a generic status error) and no typed response,
\* whatever the body.
C4_StatusOutsideRangeIsHTTPError ==
    \A i \in Calls :
        (/\ pc[i] = "done"
         /\ Answered(i)
         /\ (res[i].status < 200 \/ res[i].status > 399))
        => (/\ ret[i].err.kind \in {"api", "status"}
            /\ ~HasResponse(ret[i]))

C6_UnknownIDIsSuccess ==
    \A i \in Calls :
        (/\ Ran(i, "classify")
         /\ Is2xx(res[i].status)
         /\ BodyID(res[i].body) \notin ErrorIDConstants)
        => (/\ pc[i] \in {"decode", "done"}
            /\ pc[i] = "done" => (Ran(i, "decode") /\ ret[i].err.kind # "api"))

\* a call answered 200 with {"id":""} decoded the body and returned a typed
\* response
C6_Witness ==
    \E i \in Calls :
        /\ pc[i] = "done"
        /\ res[i].status = 200
        /\ res[i].body = [EmptyObject EXCEPT !.id = Str("")]
        /\ Ran(i, "decode")
        /\ HasResponse(ret[i])
        /\ ~HasError(ret[i])

\* what a call with path parameter p gets from the server of ConcSpec
OwnAnswer(p) ==
    IF p = <<"gone">>
      THEN HTTPResponse(404, [EmptyObject EXCEPT !.id = Str(ErrBatchUnknownID)])
      ELSE HTTPResponse(200, BatchBody(p))

\* C8: of calls in flight at the same time with pairwise distinct path
\* parameters, each sends its own path parameter, is handed the answer to
\* its own request and returns the result of that answer.
C8_ConcurrentCallsAreIsolated ==
    \A i \in Calls :
        /\ (Ran(i, "encode") /\ pc[i] # "done")
             => httpReq[i].url.path = client.baseURL.path \o ep[i].name \o param[i]
        /\ Answered(i) => res[i] = OwnAnswer(param[i])
        /\ pc[i] = "done"
             => \/ ret[i].err.kind \in {"encode", "refused"} /\ ~HasResponse(ret[i])
                \/ /\ param[i] = <<"gone">>
                   /\ ret[i].err = Err("api", APIError(ErrBatchUnknownID, <<>>, <<>>))
                   /\ ~HasResponse(ret[i])
                \/ /\ param[i] # <<"gone">>
                   /\ ~HasError(ret[i])
                   /\ HasResponse(ret[i])
                   /\ ep[i] = getBatchEndpoint => ret[i].response.Keys = param[i]

\* two calls have finished side by side, each with the keys of its own id
C8_Witness ==
    \E i, j \in Calls :
        /\ i # j
        /\ pc[i] = "done" /\ pc[j] = "done"
        /\ ep[i] = getBatchEndpoint /\ ep[j] = getBatchEndpoint
        /\ param[i] = <<"abc123">> /\ param[j] = <<"b2">>
        /\ ret[i].response.Keys = <<"abc123">>
        /\ ret[j].response.Keys = <<"b2">>

\* the path parameter taken literally: its segments and whether it ends
\* with a slash
Literal(u, name, p) ==
    URL(u.host, SelectSeq(u.path \o name \o p, LAMBDA s : s # ""),
        p # <<>> /\ p[Len(p)] = "")

\* C9: GetBatch(id) with a non-empty id, answered 200 with a body of the
\* shape {"keys":[...],"results":{...}}, issues GET <base>/v3/batch/<id> and
\* returns a non-nil response with the keys of the body and a nil error.
C9_GetBatchReturnsKeys ==
    \A i \in Calls :
        (/\ pc[i] = "done"
         /\ ep[i] = getBatchEndpoint
         /\ param[i] # <<>>
         /\ Answered(i)
         /\ res[i].status = 200
         /\ \E keys \in {<<>>, <<"k1">>, <<"k1", "k2">>} : res[i].body = BatchBody(keys))
        => (/\ httpReq[i].method = "GET"
            /\ httpReq[i].url = Literal(client.baseURL, <<"v3", "batch">>, param[i])
            /\ HasResponse(ret[i])
            /\ ret[i].response.Keys = res[i].body.keys.v
            /\ ~HasError(ret[i]))

\* C10: a mint-token request that was handed to the transport with the
\* strokes-session flag set carries an expires value of at most 300.
C10_StrokesTokenExpiresAtMost300 ==
    \A i \in Calls :
        (/\ Ran(i, "send")
         /\ ep[i] = appTokensEndpoint
         /\ httpReq[i].body.include_strokes_session_id
         /\ "expires" \in httpReq[i].body.members)
        => httpReq[i].body.expires <= 300

\* x clamped into [lo, hi]
Clamp(x, lo, hi) == IF x < lo THEN lo ELSE IF x > hi THEN hi ELSE x

\* C11: for every integer s, WithExpiration(s) sets Expires to s clamped into
\* [30, 300] when IncludeStrokesSessionID is true and into [30, 43200] when it
\* is false, and leaves IncludeStrokesSessionID (and every other field) as it was
C11_WithExpirationClamps ==
    last.op = "WithExpiration" =>
        /\ tok.Expires = Clamp(last.seconds, 30,
                               IF last.before.IncludeStrokesSessionID THEN 300 ELSE 43200)
        /\ tok.IncludeStrokesSessionID = last.before.IncludeStrokesSessionID
        /\ tok = [last.before EXCEPT !.Expires = tok.Expires]

\* WithExpiration(43201) on a strokes-session request has set Expires to 300
C11_Witness ==
    /\ last.op = "WithExpiration"
    /\ last.before.IncludeStrokesSessionID
    /\ last.seconds = 43201
    /\ tok.Expires = 300

\* the request of call i is with the transport, or about to be handed to it
Handed(i) == pc[i] = "send" \/ Ran(i, "send")

\* C12: every request handed to the transport carries app_key equal to the
\* client's application key and app_id equal to its application identifier;
\* the two are set after the payload was encoded and before the request is
\* sent, and replace what the encoder had set under those names
C12_AuthHeadersOverwriteEncoder ==
    \A i \in Calls :
        Handed(i) =>
            /\ httpReq[i].header.app_key = client.apiKey
            /\ httpReq[i].header.app_id = client.appID
            /\ Len(steps[i]) >= 2 /\ steps[i][1] = "encode" /\ steps[i][2] = "auth"

\* a request was sent whose encoder had set other values for both headers
C12_Witness ==
    \E i \in Calls :
        /\ Ran(i, "send")
        /\ encoded[i].app_key = "other-key" /\ encoded[i].app_id = "other-app"
        /\ httpReq[i].header.app_key = client.apiKey

\* C13: the Content-Type of a request handed to the transport is
\* application/json if the encoder left it unset or empty, and the encoder's
\* value otherwise
C13_ContentTypeDefaultedNotOverwritten ==
    \A i \in Calls :
        Handed(i) =>
            httpReq[i].header.ContentType =
                IF encoded[i].ContentType = "" THEN "application/json"
                                               ELSE encoded[i].ContentType

\* a request was sent with the content type its encoder had set
C13_Witness ==
    \E i \in Calls :
        /\ Ran(i, "send")
        /\ encoded[i].ContentType = "multipart/form-data"
        /\ httpReq[i].header.ContentType = "multipart/form-data"

\* C14: when c.client.Do itself fails, the call returns that very error and
\* no typed response, and does nothing after the send: the body is not read,
\* no envelope is decoded, nothing is classified, no response is decoded
C14_TransportErrorEndsTheCall ==
    \A i \in Calls :
        (Ran(i, "send") /\ answer[i].failed) =>
            /\ pc[i] = "done"
            /\ ret[i] = Return(NilResponse, Err(answer[i].cause, ZeroAPIError))
            /\ steps[i] = <<"encode", "auth", "contentType", "send">>
            /\ res[i] = NoResponse
            /\ dec[i] = NoDecode

\* a call has ended on a timeout of the transport
C14_Witness ==
    \E i \in Calls :
        /\ pc[i] = "done"
        /\ answer[i] = TransportFailure("timeout")
        /\ ret[i].err.kind = "timeout"

\* the context of call i was cancelled while the call was in flight: after
\* the wire request was built and before the read of the body ended
CancelledInFlight(i) == ctx[i] \in {"headers", "send", "nopDecode"}

\* C15: a call whose context is cancelled while it is in flight never returns
\* a typed response, only an error
C15_CancelledCallReturnsOnlyError ==
    \A i \in Calls :
        (pc[i] = "done" /\ CancelledInFlight(i)) =>
            ~HasResponse(ret[i]) /\ HasError(ret[i])

\* the wire request of call i was built
Built(i) == Ran(i, "encode") /\ httpReq[i] # NoHTTPRequest

\* C16: a call never sends twice: c.client.Do is invoked at most once whatever
\* the outcome, not at all when the wire request could not be built, and
\* exactly once by the end of a call whose wire request was built
C16_ExactlyOneRoundTrip ==
    \A i \in Calls :
        /\ trips[i] <= 1
        /\ ~Built(i) => trips[i] = 0
        /\ (pc[i] = "done" /\ Built(i)) => trips[i] = 1

\* a call has ended on a transport error after one invocation of the transport
C16_Witness ==
    \E i \in Calls :
        /\ pc[i] = "done" /\ Built(i) /\ trips[i] = 1
        /\ answer[i].failed

\* the envelope as it stands in the body b: the members id, message, detail
Envelope(b) ==
    APIError(BodyID(b),
             IF b.message.t = "str" THEN b.message.v ELSE <<>>,
             IF b.detail.t = "str" THEN b.detail.v ELSE <<>>)

\* C17: an in-band API error (a 2xx status with a known identifier) and an
\* HTTP error (a status outside the success range with a decodable envelope)
\* come back through the same error type: an *APIError that holds the
\* envelope decoded from the body, and no typed response
C17_BothErrorsAreAPIError ==
    \A i \in Calls :
        (/\ pc[i] = "done" /\ Answered(i) /\ Ran(i, "classify")
         /\ \/ Is2xx(res[i].status) /\ BodyID(res[i].body) \in ErrorIDConstants
            \/ res[i].status < 200
            \/ res[i].status >= 400)
        => (/\ ret[i].err = Err("api", Envelope(res[i].body))
            /\ ~HasResponse(ret[i]))

\* a call answered 500 with an envelope that has no known identifier came
\* back as the *APIError holding its message
C17_Witness ==
    \E i \in Calls :
        /\ pc[i] = "done" /\ Answered(i)
        /\ res[i].status = 500
        /\ res[i].body = [EmptyObject EXCEPT !.message = Str("hello")]
        /\ ret[i].err = Err("api", APIError("", <<"hello">>, <<>>))

\* C18: when the classification found a success and the decoding of the
\* buffered body into the response type fails, the call returns a decode
\* error that is not an *APIError, and no typed response, not even a partly
\* filled one
C18_DecodeErrorWithoutResponse ==
    \A i \in Calls :
        (pc[i] = "done" /\ Ran(i, "decode") /\ HasError(ret[i]))
        => (/\ ret[i].err.kind \in JSONErrKinds
            /\ ~HasResponse(ret[i]))

\* C19: Error() of an *APIError is "<identifier>: <message>" when Message is
\* not nil and the identifier alone when Message is nil; it is the same
\* whatever Detail holds
C19_ErrorStringIsIDAndMessage ==
    \A i \in Calls :
        seen[i] # NotSeen =>
            LET e == ret[i].err.api
            IN  /\ e.Message = <<>> => seen[i].text = <<e.ID>>
                /\ e.Message # <<>> => seen[i].text = <<e.ID, ": ", e.Message[1]>>
                /\ \A d \in {<<>>, <<"trace">>, <<"">>} :
                       Error([e EXCEPT !.Detail = d]) = seen[i].text

\* the caller read "sys_exception: oops" off an error whose Detail is "trace"
C19_Witness ==
    \E i \in Calls :
        /\ ret[i].err = Err("api", APIError("sys_exception", <<"oops">>, <<"trace">>))
        /\ seen[i].text = <<"sys_exception", ": ", "oops">>

\* C20: HTTPStatusCode is 401 for http_unauthorized, 429 for
\* http_max_requests and 200 for every other identifier, known or unknown;
\* and whether a call that got as far as the classification fails is a
\* matter of the status code of the response and of the identifier being one
\* of the known ones, never of what HTTPStatusCode maps the identifier to
C20_HTTPStatusCodeIsInformational ==
    \A i \in Calls :
        /\ seen[i] # NotSeen =>
              seen[i].code = IF ret[i].err.api.ID = "http_unauthorized" THEN 401
                             ELSE IF ret[i].err.api.ID = "http_max_requests" THEN 429
                             ELSE 200
        /\ (pc[i] = "done" /\ Answered(i) /\ Ran(i, "classify")) =>
              ((ret[i].err.kind = "api")
                 <=> \/ res[i].status < 200
                     \/ res[i].status >= 400
                     \/ BodyID(res[i].body) \in ErrorIDConstants)

\* a call answered 200 with http_max_requests failed, and the caller read 429
\* off the identifier
C20_Witness ==
    \E i \in Calls :
        /\ pc[i] = "done" /\ Answered(i)
        /\ res[i].status = 200
        /\ ret[i].err.kind = "api" /\ ret[i].err.api.ID = "http_max_requests"
        /\ seen[i].code = 429

\* the segments of a path that are not empty
NonEmpty(segs) == SelectSeq(segs, LAMBDA x : x # "")

\* a path parameter without "." and ".." segments
PlainParam(p) == \A k \in 1 .. Len(p) : p[k] \notin {".", ".."}

\* C21: the URL of the wire request is the base URL, then the path template
\* of the descriptor, then the path parameter, with one separator between
\* adjacent segments (no empty segment) whether or not the base URL ends with
\* a slash, and with neither a trailing slash nor a further segment when the
\* path parameter is empty
C21_URLIsBaseTemplateParamJoined ==
    \A i \in Calls :
        (Built(i) /\ PlainParam(param[i])) =>
            LET u == httpReq[i].url
            IN  /\ u.host = client.baseURL.host
                /\ u.path = NonEmpty(client.baseURL.path) \o ep[i].name \o NonEmpty(param[i])
                /\ \A k \in 1 .. Len(u.path) : u.path[k] # ""
                /\ param[i] = <<>> =>
                      /\ ~u.slash
                      /\ u.path = NonEmpty(client.baseURL.path) \o ep[i].name

\* GetBatch("abc123") through a client whose base URL ends with a slash asked
\* for proxy.local/api/v3/batch/abc123
C21_Witness ==
    \E i \in Calls :
        /\ Built(i)
        /\ client.baseURL = ProxyBaseURL
        /\ ep[i] = getBatchEndpoint /\ param[i] = <<"abc123">>
        /\ httpReq[i].url = URL("proxy.local", <<"api", "v3", "batch", "abc123">>, FALSE)

\* how often call i has executed step
Times(i, step) == Cardinality({k \in 1 .. Len(steps[i]) : steps[i][k] = step})

\* C22: the body of the response is read off the network once, by the
\* envelope decoder; on the success path the response decoder is handed the
\* buffer with the very bytes the envelope decoder read, so that the typed
\* response and the envelope are decoded from one and the same JSON value
C22_BodyReadOnceAndReplayed ==
    \A i \in Calls :
        /\ Times(i, "envelope") <= 1
        /\ Ran(i, "decode") =>
              /\ Times(i, "envelope") = 1
              /\ dec[i].buf = res[i].body
              /\ dec[i].v = Envelope(res[i].body)
              /\ ret[i] = LET d == DecodeResponse(ep[i].Response, res[i].body)
                           IN  Return(d.response, d.err)

\* GetBatch answered 200 with {"message":"hello"}: the envelope holds the
\* message and the response decoder, handed the same object, returned a
\* response
C22_Witness ==
    \E i \in Calls :
        /\ Ran(i, "decode")
        /\ ep[i] = getBatchEndpoint
        /\ res[i].body = [EmptyObject EXCEPT !.message = Str("hello")]
        /\ dec[i].v.Message = <<"hello">>
        /\ dec[i].buf = res[i].body
        /\ HasResponse(ret[i]) /\ ~HasError(ret[i])

\* the documented verb and path of each facade method, and whether it takes
\* a path parameter
Operation(verb, path, takesParam) == [verb |-> verb, path |-> path, takesParam |-> takesParam]
Documented(m) ==
    CASE m = "Image"          -> Operation("POST", <<"v3", "image">>, FALSE)
      [] m = "Pdf"            -> Operation("POST", <<"v3", "pdf">>, FALSE)
      [] m = "PdfResult"      -> Operation("GET", <<"v3", "status">>, TRUE)
      [] m = "Batch"          -> Operation("POST", <<"v3", "batch">>, FALSE)
      [] m = "GetBatch"       -> Operation("GET", <<"v3", "batch">>, TRUE)
      [] m = "RequestStrokes" -> Operation("POST", <<"v3", "strokes">>, FALSE)
      [] m = "SearchResults"  -> Operation("GET", <<"v3", "ocr-results">>, FALSE)
      [] m = "NewClientToken" -> Operation("POST", <<"v3", "app-tokens">>, FALSE)
      [] m = "RequestUsage"   -> Operation("POST", <<"v3", "usage">>, FALSE)

\* C23: each facade method dispatches with the verb and the path of its
\* operation; a method without a path parameter passes the empty string; the
\* descriptor a call works with is, from its first step to its last, one of
\* the nine static descriptors as they were declared; and the wire request
\* has that verb and (for a parameter without dot segments) that path
\* followed by the parameter
C23_FacadeDispatchesDocumentedOperation ==
    \A i \in Calls :
        facade[i] # "" =>
            LET op == Documented(facade[i])
            IN  /\ ep[i] \in Endpoints
                /\ ep[i].method = op.verb
                /\ ep[i].name = op.path
                /\ ~op.takesParam => param[i] = <<>>
                /\ Built(i) =>
                      /\ httpReq[i].method = op.verb
                      /\ PlainParam(param[i]) =>
                            httpReq[i].url.path =
                                NonEmpty(client.baseURL.path) \o op.path \o NonEmpty(param[i])

\* PdfResult with the conversion id abc123 asked for GET .../v3/status/abc123
C23_Witness ==
    \E i \in Calls :
        /\ facade[i] = "PdfResult" /\ Built(i)
        /\ param[i] = <<"abc123">>
        /\ httpReq[i].method = "GET"
        /\ httpReq[i].url.path = NonEmpty(client.baseURL.path) \o <<"v3", "status", "abc123">>

\* the steps of a call in the order of the code
StepOrder == <<"encode", "auth", "contentType", "send", "envelope", "classify", "decode">>
FirstSteps(n) == SubSeq(StepOrder, 1, n)

\* C24: the steps of a call happen in the order encode, authentication
\* headers, content type, send, envelope, classify, decode, each at most
\* once; a step that fails is the last one of its call; and the response
\* decoder runs only after a classification that found no failure
C24_StepsInFixedOrder ==
    \A i \in Calls :
        /\ Len(steps[i]) <= Len(StepOrder)
        /\ steps[i] = FirstSteps(Len(steps[i]))
        /\ pc[i] = "done" =>
              /\ ret[i].err.kind = "encode" => steps[i] = FirstSteps(1)
              /\ answer[i].failed => steps[i] = FirstSteps(4)
              /\ (Answered(i) /\ ~Ran(i, "classify")) =>
                    (steps[i] = FirstSteps(5) /\ ret[i].err.kind \in JSONErrKinds)
              /\ ret[i].err.kind = "api" => steps[i] = FirstSteps(6)
              /\ steps[i] \in {FirstSteps(1), FirstSteps(4), FirstSteps(5),
                                FirstSteps(6), FirstSteps(7)}
        /\ Ran(i, "decode") =>
              /\ res[i].status >= 200 /\ res[i].status < 400
              /\ BodyID(res[i].body) \notin ErrorIDConstants
              /\ ret[i].err.kind # "api"

\* a call has run all seven steps and returned a response
C24_Witness ==
    \E i \in Calls :
        /\ pc[i] = "done"
        /\ steps[i] = StepOrder
        /\ HasResponse(ret[i]) /\ ~HasError(ret[i])

\* C25: every request reached from NewAppTokenRequest() by WithStrokesSession
\* and WithExpiration calls has 30 <= Expires <= 43200, and Expires <= 300
\* when IncludeStrokesSessionID is true; and no builder method turns
\* IncludeStrokesSessionID from true to false
C25_BuilderKeepsExpiresInRange ==
    /\ tok.Expires >= 30 /\ tok.Expires <= 43200
    /\ tok.IncludeStrokesSessionID => tok.Expires <= 300
    /\ (last.op \in {"WithStrokesSession", "WithExpiration"}
          /\ last.before.IncludeStrokesSessionID)
         => tok.IncludeStrokesSessionID

\* WithStrokesSession on a request with Expires 43200 has brought it to 300
C25_Witness ==
    /\ last.op = "WithStrokesSession"
    /\ last.before = AppTokenRequest(FALSE, 43200)
    /\ tok = AppTokenRequest(TRUE, 300)

\* C26: on every request reached from NewAppTokenRequest() by builder calls
\* and for every s, WithStrokesSession then WithExpiration(s) gives the same
\* request as WithExpiration(s) then WithStrokesSession; WithExpiration(s)
\* twice gives what it gives once; WithStrokesSession twice gives what it
\* gives once
C26_BuilderStepsCommuteAndAreIdempotent ==
    /\ \A s \in SecondsValues :
          /\ WithExpiration(WithStrokesSession(tok), s)
                = WithStrokesSession(WithExpiration(tok, s))
          /\ WithExpiration(WithExpiration(tok, s), s) = WithExpiration(tok, s)
    /\ WithStrokesSession(WithStrokesSession(tok)) = WithStrokesSession(tok)
    /\ (last.op = "WithExpiration" /\ ~last.before.IncludeStrokesSessionID)
         => WithStrokesSession(tok)
              = WithExpiration(WithStrokesSession(last.before), last.seconds)
    /\ (last.op = "WithStrokesSession")
         => \A s \in SecondsValues :
               WithExpiration(tok, s) = WithStrokesSession(WithExpiration(last.before, s))

\* WithExpiration(500) was called on a request that WithStrokesSession had
\* been called on, and the request is the one the other order gives
C26_Witness ==
    /\ last.op = "WithExpiration" /\ last.seconds = 500
    /\ last.before = AppTokenRequest(TRUE, 300)
    /\ tok = WithStrokesSession(WithExpiration(NewAppTokenRequest, 500))

\* C27: whatever calls were made and however they ended, the application
\* key, the application identifier, the base URL, the transport and
\* SetCommonHeaders of the Client are what NewClient made them
C27_CallLeavesClientAsConstructed ==
    /\ client = NewClient(made.apiKey, made.appID, made.opts)
    /\ client.apiKey = made.apiKey
    /\ client.appID = made.appID
    /\ client.client = "http.DefaultClient"
    /\ client.SetCommonHeaders = "NewClient"

\* a call through a client with a base URL of its own has ended with an API
\* error, and the base URL is the one the client was constructed with
C27_Witness ==
    \E i \in Calls :
        /\ pc[i] = "done" /\ ret[i].err.kind = "api"
        /\ made.opts = <<WithBaseURL(TRUE, ProxyBaseURL)>>
        /\ client.baseURL = ProxyBaseURL

\* C28: whatever path parameter GetBatch or PdfResult is given, dots and
\* slashes included, the path of the request is the path of the base URL,
\* then the path template of the descriptor, then the parameter: the request
\* never goes to a path that is not under the template
C28_ParamStaysUnderTemplate ==
    \A i \in Calls :
        (Built(i) /\ facade[i] \in {"GetBatch", "PdfResult"}) =>
            LET template == NonEmpty(client.baseURL.path) \o ep[i].name
                path == httpReq[i].url.path
            IN  /\ Len(path) >= Len(template)
                /\ SubSeq(path, 1, Len(template)) = template
                /\ path = template \o NonEmpty(param[i])

\* C29: a 2xx response whose body decodes without an error into the response
\* type of the endpoint and has no known error identifier makes the call
\* return the typed response and a nil error, also when the body is not a
\* JSON object or has a member id, message or detail that is not a string
C29_LegitimatePayloadIsReturned ==
    \A i \in Calls :
        (/\ pc[i] = "done" /\ Answered(i)
         /\ Is2xx(res[i].status)
         /\ DecodeResponse(ep[i].Response, res[i].body).err = NilErr
         /\ BodyID(res[i].body) \notin ErrorIDConstants)
        => (HasResponse(ret[i]) /\ ~HasError(ret[i]))

\* the base URL the options ask for: that of the last WithBaseURL whose URL
\* parsed, the default without one
RECURSIVE Requested(_)
Requested(opts) ==
    IF opts = <<>> THEN DefaultBaseURL
    ELSE LET opt == opts[Len(opts)]
         IN  IF opt.field = "baseURL" /\ opt.ok THEN opt.url
             ELSE Requested(SubSeq(opts, 1, Len(opts) - 1))

\* C30: whatever the options, the base URL of the client is the default
\* unless a WithBaseURL with a parseable URL was given (the last one wins, an
\* unparseable one changes nothing), and SetCommonHeaders sets app_key and
\* app_id to the key and the identifier given to NewClient, also when an
\* option assigned SetCommonHeaders
C30_NewClientAppliesOptions ==
    /\ client.baseURL = Requested(made.opts)
    /\ \A h \in {Header("", "", ""), Header("old", "old", "text/plain")} :
           /\ SetCommonHeaders(client, h).app_key = made.apiKey
           /\ SetCommonHeaders(client, h).app_id = made.appID
    /\ \A i \in Calls :
           pc[i] \in {"send", "done"} /\ Ran(i, "auth")
           => /\ httpReq[i].header.app_key = made.apiKey
              /\ httpReq[i].header.app_id = made.appID

\* a request was sent by a client made with a parseable base URL, then an
\* unparseable one and an option that assigned SetCommonHeaders
C30_Witness ==
    /\ made.opts = <<WithBaseURL(TRUE, ProxyBaseURL), WithBaseURL(FALSE, DefaultBaseURL),
                     WithCommonHeaders("custom")>>
    /\ made.apiKey = "key2"
    /\ client.baseURL = ProxyBaseURL
    /\ pc[Main] = "done" /\ Ran(Main, "send")
    /\ httpReq[Main].header.app_key = "key2"
    /\ httpReq[Main].url.host = "proxy.local"

====
